---- MODULE Spec2Model ----
(***************************************************************************)
(* State-machine model of the personalize-demo notebooks.                  *)
(*                                                                         *)
(*  - Pre-processing notebook: the loop that fills reviewed_item_ids and   *)
(*    n_reviews (the Reviewed-ID Extractor) and the remove_unused_items()  *)
(*    call (the Unused-Item Filter), plus the validation re-run that the   *)
(*    notebook's closing note proposes.                                    *)
(*  - "Enabling Real-Time Feedback" notebook: the event-tracker set-up     *)
(*    cell and send_interaction(), and the two cells that pick the test    *)
(*    user (reservoir with k = 1) and the items to interact with           *)
(*    (reservoir with k = n_interactions).                                 *)
(*                                                                         *)
(* Probabilities are written in hundredths: 0 is p = 0, 100 is p = 1.0 and *)
(* the notebook's max_cold_start = 0.01 is 1.  A draw of random.random()   *)
(* in [0, 1) is a value u in 0..99 and admits a record iff u < p.          *)
(***************************************************************************)
EXTENDS Naturals, Integers, Sequences, FiniteSets, TLC

VARIABLES
    \* ---- pre-processing notebook ----
    reviews_seen,       \* lines json_gz_reader has pulled from the reviews stream
    ext_state,          \* the extraction loop: "Reading", "Done", "Failed"
    ext_error,          \* "None", "MalformedRecord", "KeyError"
    reviewed_item_ids,  \* the set built by the extraction loop
    n_reviews,          \* the count built by the extraction loop
    max_cold_start,     \* the configuration value handed to the filter
    flt_state,          \* "NotCalled", "Reading", "Done", "Failed"
    flt_ids,            \* remove_unused_items' reviewed_item_ids argument
    flt_p,              \* remove_unused_items' max_cold_start argument
    items_seen,         \* lines the filter has pulled from items_raw
    draws,              \* per decoded record: the cold-start draw, or NoDraw
    fout,               \* lines written to the output stream
    flt_error,          \* [kind, line] of the failure, or NoError
    run,                \* 1: the filter cell, 2: the validation re-run
    filtered,           \* the first run's output, input of the re-run
    \* ---- real-time feedback notebook ----
    trackers,           \* the service: its Event Trackers
    svc_next,           \* the service: next fresh tracker number
    event_tracker_arn,  \* notebook global, Unbound until assigned
    tracking_id,        \* notebook global, Unbound until assigned
    create_result,      \* what create_event_tracker answered in the last cell run
    cell_raised,        \* whether the last run of the tracker cell raised
    cell_runs,          \* how many times the tracker cell has run
    session_dict,       \* defaultdict(uuid.uuid1): user ID -> session ID
    uuid_clock,         \* number of uuid1() values generated so far
    events,             \* put_events requests received by the service
    calls,              \* send_interaction calls made: [user, item, result]
    \* ---- real-time feedback notebook: the sampling cells ----
    users_seen,         \* records data_folder_reader has yielded from data/raw/users
    n_users,            \* the user cell's counter
    sample_user,        \* the reservoir of the user cell (k = 1), None at first
    user,               \* the loop variable of the user cell
    user_cell,          \* "Reading", "Printed", "Raised"
    printed,            \* the "Testing with user ID ..." message, once printed
    n_interactions,     \* k of the item cell
    items_read,         \* records data_folder_reader has yielded from data/raw/items
    n_items,            \* the item cell's counter
    item_titles,        \* dict: item ID -> title
    interaction_items,  \* the reservoir of the item cell (a Python list)
    written_index,      \* Python index of the last replacement, or NoIndex
    item_cell,          \* "Reading", "Shown", "Raised"
    shown               \* the table displayed after the loop: [id, title] rows

preprocVars == <<reviews_seen, ext_state, ext_error, reviewed_item_ids, n_reviews,
                 max_cold_start, flt_state, flt_ids, flt_p, items_seen, draws,
                 fout, flt_error, run, filtered>>
feedbackVars == <<trackers, svc_next, event_tracker_arn, tracking_id, create_result,
                  cell_raised, cell_runs, session_dict, uuid_clock, events, calls>>
extractorVars == <<reviews_seen, ext_state, ext_error, reviewed_item_ids, n_reviews>>
filterVars == <<max_cold_start, flt_state, flt_ids, flt_p, items_seen, draws,
                fout, flt_error, run, filtered>>
userCellVars == <<users_seen, n_users, sample_user, user, user_cell, printed>>
itemCellVars == <<n_interactions, items_read, n_items, item_titles, interaction_items,
                  written_index, item_cell, shown>>
samplingVars == <<userCellVars, itemCellVars>>
vars == <<preprocVars, feedbackVars, samplingVars>>

(***************************************************************************)
(* Bounds of the model.                                                    *)
(***************************************************************************)
MaxReviews == 2
MaxProducts == 3
MaxRuns == 2
MaxCalls == 3
MaxUsers == 3
MaxItems == 4

(***************************************************************************)
(* Data: identifiers, JSON objects and lines.                              *)
(* A line is text: it either parses to an object or is malformed, and the  *)
(* same object has more than one textual form (fmt).  json.dumps always    *)
(* produces the "canon" form, so re-serialisation is not the identity on   *)
(* lines although it is on objects.                                        *)
(***************************************************************************)
Ids == {"A", "B"}
Formats == {"raw", "canon"}

NotebookColdStart == 1
Probabilities == {0, NotebookColdStart, 100}
DrawValues == {0, 99}
NoDraw == 0 - 1
NoError == [kind |-> "None", line |-> 0]

MalformedLine == [valid |-> FALSE, fmt |-> "raw", obj |-> [garbage |-> "{"]]
ReviewObjects == {[asin |-> i] : i \in Ids} \cup {[reviewerID |-> "r"]}
ReviewLines == {[valid |-> TRUE, fmt |-> "raw", obj |-> o] : o \in ReviewObjects}
                  \cup {MalformedLine}
ProductObjects == {[asin |-> i] : i \in Ids}
ProductLines == {[valid |-> TRUE, fmt |-> f, obj |-> o] :
                     f \in Formats, o \in ProductObjects} \cup {MalformedLine}

JsonLoads(line) == line.obj
JsonDumps(obj) == [valid |-> TRUE, fmt |-> "canon", obj |-> obj]

(***************************************************************************)
(* Reviewed-ID Extractor: the loop over json_gz_reader(reviews).           *)
(***************************************************************************)
ReviewsNext == IF Len(reviews_seen) < MaxReviews THEN ReviewLines ELSE {}

ExtractorCount(n) == n + 1

\* Mutant of ExtractorAdd: the set is overwritten instead of extended.
ExtractorAddOverwrites(ids, review) == {review.asin}

ExtractorAdd(ids, review) == ids \cup {review.asin}

ExtractorRecord ==
    /\ ext_state = "Reading"
    /\ \E line \in ReviewsNext :
         /\ line.valid
         /\ "asin" \in DOMAIN JsonLoads(line)
         /\ reviews_seen' = Append(reviews_seen, line)
         /\ n_reviews' = ExtractorCount(n_reviews)
         /\ reviewed_item_ids' = ExtractorAdd(reviewed_item_ids, JsonLoads(line))
    /\ UNCHANGED <<ext_state, ext_error, filterVars, feedbackVars, samplingVars>>

\* Mutant of ExtractorKeyError: the missing field is swallowed and the loop
\* goes on reading.
ExtractorKeyErrorSwallowed ==
    /\ ext_state = "Reading"
    /\ \E line \in ReviewsNext :
         /\ line.valid
         /\ "asin" \notin DOMAIN JsonLoads(line)
         /\ reviews_seen' = Append(reviews_seen, line)
         /\ n_reviews' = ExtractorCount(n_reviews)
    /\ UNCHANGED <<ext_state, ext_error, reviewed_item_ids, filterVars, feedbackVars, samplingVars>>

ExtractorKeyError ==
    /\ ext_state = "Reading"
    /\ \E line \in ReviewsNext :
         /\ line.valid
         /\ "asin" \notin DOMAIN JsonLoads(line)
         /\ reviews_seen' = Append(reviews_seen, line)
         /\ n_reviews' = ExtractorCount(n_reviews)
    /\ ext_state' = "Failed"
    /\ ext_error' = "KeyError"
    /\ UNCHANGED <<reviewed_item_ids, filterVars, feedbackVars, samplingVars>>

ExtractorMalformed ==
    /\ ext_state = "Reading"
    /\ \E line \in ReviewsNext :
         /\ ~line.valid
         /\ reviews_seen' = Append(reviews_seen, line)
    /\ ext_state' = "Failed"
    /\ ext_error' = "MalformedRecord"
    /\ UNCHANGED <<reviewed_item_ids, n_reviews, filterVars, feedbackVars, samplingVars>>

ExtractorExhausted ==
    /\ ext_state = "Reading"
    /\ ext_state' = "Done"
    /\ UNCHANGED <<reviews_seen, ext_error, reviewed_item_ids, n_reviews,
                   filterVars, feedbackVars, samplingVars>>

ExtractorStep ==
    \/ ExtractorRecord
    \/ ExtractorKeyError
    \/ ExtractorMalformed
    \/ ExtractorExhausted

(***************************************************************************)
(* Unused-Item Filter: remove_unused_items(items_raw, fout,                *)
(* reviewed_item_ids, max_cold_start).                                     *)
(***************************************************************************)
\* The lines items_raw may yield next: any line of the products object on the
\* first run, the next line of the filtered dataset on the validation re-run.
ItemsNext ==
    IF run = 2
    THEN IF Len(items_seen) < Len(filtered)
         THEN {filtered[Len(items_seen) + 1]}
         ELSE {}
    ELSE IF Len(items_seen) < MaxProducts THEN ProductLines ELSE {}

ItemsExhausted == run = 2 => Len(items_seen) = Len(filtered)

IsReviewed(item, ids) == item.asin \in ids

\* Mutant of ColdStartAdmits: the draw is compared one hundredth too low, so
\* p = 1.0 no longer admits every record.
ColdStartAdmitsShort(u, p) == u + 1 < p

ColdStartAdmits(u, p) == u < p

\* Mutant of WriteItem: the record is put in front of the output.
WriteItemInFront(out, item) == <<JsonDumps(item)>> \o out

WriteItem(out, item) == Append(out, JsonDumps(item))

\* Mutant of MalformedRecord: the error carries the 0-based index.
MalformedRecordZeroBased(k) == [kind |-> "MalformedRecord", line |-> k - 1]

MalformedRecord(k) == [kind |-> "MalformedRecord", line |-> k]

\* Mutant of ArgReviewedIds: the call passes a fresh, empty set.
ArgReviewedIdsEmpty == {}

\* Mutant of ArgMaxColdStart: the call passes the literal 0.01 instead of the
\* configured value.
ArgMaxColdStartLiteral == NotebookColdStart

\* The arguments the notebook's call passes, and the buffer it writes to.
ArgReviewedIds == reviewed_item_ids
ArgMaxColdStart == max_cold_start
NewBytesIO == << >>

EnterFilter ==
    /\ flt_state' = "Reading"
    /\ flt_ids' = ArgReviewedIds
    /\ flt_p' = ArgMaxColdStart
    /\ fout' = NewBytesIO
    /\ items_seen' = << >>
    /\ draws' = << >>
    /\ flt_error' = NoError

RunFilterCell ==
    /\ ext_state \in {"Done", "Failed"}
    /\ flt_state = "NotCalled"
    /\ EnterFilter
    /\ UNCHANGED <<max_cold_start, run, filtered, extractorVars, feedbackVars, samplingVars>>

FilterKeepReviewed ==
    /\ flt_state = "Reading"
    /\ \E line \in ItemsNext :
         /\ line.valid
         /\ IsReviewed(JsonLoads(line), flt_ids)
         /\ items_seen' = Append(items_seen, line)
         /\ draws' = Append(draws, NoDraw)
         /\ fout' = WriteItem(fout, JsonLoads(line))
    /\ UNCHANGED <<max_cold_start, flt_state, flt_ids, flt_p, flt_error, run,
                   filtered, extractorVars, feedbackVars, samplingVars>>

FilterColdStart ==
    /\ flt_state = "Reading"
    /\ \E line \in ItemsNext, u \in DrawValues :
         /\ line.valid
         /\ ~IsReviewed(JsonLoads(line), flt_ids)
         /\ items_seen' = Append(items_seen, line)
         /\ draws' = Append(draws, u)
         /\ fout' = IF ColdStartAdmits(u, flt_p)
                    THEN WriteItem(fout, JsonLoads(line))
                    ELSE fout
    /\ UNCHANGED <<max_cold_start, flt_state, flt_ids, flt_p, flt_error, run,
                   filtered, extractorVars, feedbackVars, samplingVars>>

FilterMalformed ==
    /\ flt_state = "Reading"
    /\ \E line \in ItemsNext :
         /\ ~line.valid
         /\ items_seen' = Append(items_seen, line)
    /\ flt_state' = "Failed"
    /\ flt_error' = MalformedRecord(Len(items_seen) + 1)
    /\ UNCHANGED <<max_cold_start, flt_ids, flt_p, draws, fout, run, filtered,
                   extractorVars, feedbackVars, samplingVars>>

FilterExhausted ==
    /\ flt_state = "Reading"
    /\ ItemsExhausted
    /\ flt_state' = "Done"
    /\ UNCHANGED <<max_cold_start, flt_ids, flt_p, items_seen, draws, fout,
                   flt_error, run, filtered, extractorVars, feedbackVars, samplingVars>>

FilterStep ==
    \/ FilterKeepReviewed
    \/ FilterColdStart
    \/ FilterMalformed
    \/ FilterExhausted

\* The validation the notebook's closing note proposes: run
\* remove_unused_items() again, on the filtered dataset.
RerunOnFiltered ==
    /\ flt_state = "Done"
    /\ run = 1
    /\ run' = 2
    /\ filtered' = fout
    /\ EnterFilter
    /\ UNCHANGED <<max_cold_start, extractorVars, feedbackVars, samplingVars>>

(***************************************************************************)
(* The sampling cells before they run.  None is Python's None, Undefined a *)
(* name that is not bound yet (reading it raises NameError).               *)
(***************************************************************************)
None == [isNone |-> TRUE]
Undefined == [undefined |-> TRUE]
NoMessage == [printed |-> FALSE]
NoIndex == 0 - 1
NotebookInteractions == 3
EmptyDict == [k \in {} |-> 0]

UserCellIdle ==
    /\ users_seen = << >>
    /\ n_users = 0
    /\ sample_user = None
    /\ user = Undefined
    /\ user_cell = "Reading"
    /\ printed = NoMessage

ItemCellIdle ==
    /\ n_interactions = NotebookInteractions
    /\ items_read = << >>
    /\ n_items = 0
    /\ item_titles = EmptyDict
    /\ interaction_items = << >>
    /\ written_index = NoIndex
    /\ item_cell = "Reading"
    /\ shown = << >>

SamplingIdle == UserCellIdle /\ ItemCellIdle

(***************************************************************************)
(* Specifications of the pre-processing notebook.                          *)
(***************************************************************************)
Unbound == 0

FeedbackIdle ==
    /\ trackers = {}
    /\ svc_next = 1
    /\ event_tracker_arn = Unbound
    /\ tracking_id = Unbound
    /\ create_result = "NotRun"
    /\ cell_raised = FALSE
    /\ cell_runs = 0
    /\ session_dict = [u \in {} |-> 0]
    /\ uuid_clock = 0
    /\ events = << >>
    /\ calls = << >>

InitPreproc ==
    /\ reviews_seen = << >>
    /\ ext_state = "Reading"
    /\ ext_error = "None"
    /\ reviewed_item_ids = {}
    /\ n_reviews = 0
    /\ max_cold_start \in Probabilities
    /\ flt_state = "NotCalled"
    /\ flt_ids = {}
    /\ flt_p = 0
    /\ items_seen = << >>
    /\ draws = << >>
    /\ fout = << >>
    /\ flt_error = NoError
    /\ run = 1
    /\ filtered = << >>
    /\ FeedbackIdle
    /\ SamplingIdle

PreprocNext ==
    \/ ExtractorRecord
    \/ ExtractorKeyError
    \/ ExtractorMalformed
    \/ ExtractorExhausted
    \/ RunFilterCell
    \/ FilterKeepReviewed
    \/ FilterColdStart
    \/ FilterMalformed
    \/ FilterExhausted

PreprocSpec == InitPreproc /\ [][PreprocNext]_vars

\* The loops are synchronous: once entered they keep stepping until the
\* stream ends or a record fails.
FairPreprocSpec ==
    PreprocSpec /\ WF_vars(ExtractorStep) /\ WF_vars(FilterStep)

ValidationNext == PreprocNext \/ RerunOnFiltered

ValidationSpec == InitPreproc /\ [][ValidationNext]_vars

(***************************************************************************)
(* The Personalize service, as the tracker cell sees it: one Event Tracker *)
(* per Dataset Group.  A tracker has an ARN and a tracking ID; the         *)
(* ResourceAlreadyExistsException message is a sentence (words separated   *)
(* by spaces) that contains the existing tracker's ARN.                    *)
(***************************************************************************)
DatasetGroup == "dataset_group_arn"
OtherGroup == "another-dataset-group"
Users == {"u1", "u2"}
Items == {1, 2}

Tracker(n, group) == [arn |-> n, trackingId |-> n + 10, group |-> group]
GroupTrackers(group) == {t \in trackers : t.group = group}
DescribeEventTracker(arn) == {t \in trackers : t.arn = arn}

Word == [kind |-> "word", n |-> 0]
ArnToken(arn) == [kind |-> "arn", n |-> arn]
AlreadyExistsMessage(arn) ==
    <<Word, Word, Word, Word, ArnToken(arn), Word, Word>>

\* Mutant of ScrapeArn: the last word of the message is taken.
ScrapeArnLastWord(msg) == msg[Len(msg)].n

\* msg[msg.index("arn:aws:personalize"):].partition(" ")[0]
ScrapeArn(msg) ==
    LET i == CHOOSE i \in 1..Len(msg) :
                 /\ msg[i].kind = "arn"
                 /\ \A j \in 1..(i - 1) : msg[j].kind # "arn"
    IN  msg[i].n

sendVars == <<session_dict, uuid_clock, events, calls>>

\* create_event_tracker succeeds.
TrackerCellCreated ==
    /\ cell_runs < MaxRuns
    /\ GroupTrackers(DatasetGroup) = {}
    /\ LET created == Tracker(svc_next, DatasetGroup)
           create_tracker_response ==
               [eventTrackerArn |-> created.arn, trackingId |-> created.trackingId]
       IN  /\ trackers' = trackers \cup {created}
           /\ svc_next' = svc_next + 1
           /\ event_tracker_arn' = create_tracker_response.eventTrackerArn
           /\ tracking_id' = create_tracker_response.trackingId
    /\ create_result' = "Success"
    /\ cell_raised' = FALSE
    /\ cell_runs' = cell_runs + 1
    /\ UNCHANGED <<sendVars, preprocVars, samplingVars>>

\* create_event_tracker fails with ResourceAlreadyExistsException.
TrackerCellExisting ==
    /\ cell_runs < MaxRuns
    /\ \E existing \in GroupTrackers(DatasetGroup) :
         LET msg == AlreadyExistsMessage(existing.arn)
             arn == ScrapeArn(msg)
             description == DescribeEventTracker(arn)
         IN  /\ event_tracker_arn' = arn
             /\ IF description # {}
                THEN /\ tracking_id' = (CHOOSE t \in description : TRUE).trackingId
                     /\ cell_raised' = FALSE
                ELSE /\ tracking_id' = tracking_id
                     /\ cell_raised' = TRUE
    /\ create_result' = "ResourceAlreadyExistsException"
    /\ cell_runs' = cell_runs + 1
    /\ UNCHANGED <<trackers, svc_next, sendVars, preprocVars, samplingVars>>

\* create_event_tracker fails with any other ClientError.
TrackerCellOtherError ==
    /\ cell_runs < MaxRuns
    /\ create_result' = "OtherClientError"
    /\ cell_raised' = TRUE
    /\ cell_runs' = cell_runs + 1
    /\ UNCHANGED <<trackers, svc_next, event_tracker_arn, tracking_id, sendVars,
                   preprocVars, samplingVars>>

(***************************************************************************)
(* send_interaction(user_id, item_id).                                     *)
(***************************************************************************)
Str(x) == ToString(x)
Uuid1 == uuid_clock + 1

\* Mutant of SessionLookup: a new session ID is generated on every call.
SessionLookupAlwaysNew(user_id) ==
    [id |-> Uuid1,
     dict |-> [u \in DOMAIN session_dict \cup {user_id} |->
                  IF u = user_id THEN Uuid1 ELSE session_dict[u]],
     clock |-> uuid_clock + 1]

\* session_dict[user_id] on a defaultdict(uuid.uuid1).
SessionLookup(user_id) ==
    IF user_id \in DOMAIN session_dict
    THEN [id |-> session_dict[user_id], dict |-> session_dict, clock |-> uuid_clock]
    ELSE [id |-> Uuid1,
          dict |-> [u \in DOMAIN session_dict \cup {user_id} |->
                       IF u = user_id THEN Uuid1 ELSE session_dict[u]],
          clock |-> uuid_clock + 1]

\* The put_events request (sentAt, the wall-clock second, is left out).
PutEventsRequest(user_id, session_id, item_id) ==
    [trackingId |-> tracking_id,
     userId |-> user_id,
     sessionId |-> Str(session_id),
     eventList |-> <<[eventType |-> "EVENT_TYPE",
                      properties |-> JsonDumps([itemId |-> Str(item_id)])]>>]

trackerVars == <<trackers, svc_next, event_tracker_arn, tracking_id, create_result,
                 cell_raised, cell_runs>>

\* The notebook's cells run top to bottom: the simulation cells come after the
\* tracker cell has run, whether or not it raised.
SendInteraction ==
    /\ Len(calls) < MaxCalls
    /\ cell_runs > 0
    /\ tracking_id # Unbound
    /\ \E user_id \in Users, item_id \in Items :
         LET s == SessionLookup(user_id)
         IN  /\ session_dict' = s.dict
             /\ uuid_clock' = s.clock
             /\ events' = Append(events, PutEventsRequest(user_id, s.id, item_id))
             /\ calls' = Append(calls, [user |-> user_id, item |-> item_id,
                                        result |-> "Returned"])
    /\ UNCHANGED <<trackerVars, preprocVars, samplingVars>>

\* tracking_id is not bound yet: the session ID is looked up (and generated),
\* then evaluating the trackingId argument raises NameError.
SendInteractionNameError ==
    /\ Len(calls) < MaxCalls
    /\ cell_runs > 0
    /\ tracking_id = Unbound
    /\ \E user_id \in Users, item_id \in Items :
         LET s == SessionLookup(user_id)
         IN  /\ session_dict' = s.dict
             /\ uuid_clock' = s.clock
             /\ calls' = Append(calls, [user |-> user_id, item |-> item_id,
                                        result |-> "NameError"])
    /\ UNCHANGED <<events, trackerVars, preprocVars, samplingVars>>

(***************************************************************************)
(* Specification of the real-time feedback notebook.                       *)
(***************************************************************************)
PreprocIdle ==
    /\ reviews_seen = << >>
    /\ ext_state = "Reading"
    /\ ext_error = "None"
    /\ reviewed_item_ids = {}
    /\ n_reviews = 0
    /\ max_cold_start = NotebookColdStart
    /\ flt_state = "NotCalled"
    /\ flt_ids = {}
    /\ flt_p = 0
    /\ items_seen = << >>
    /\ draws = << >>
    /\ fout = << >>
    /\ flt_error = NoError
    /\ run = 1
    /\ filtered = << >>

\* The service may already hold a tracker of this Dataset Group (an earlier
\* session created it) and one of another group.
InitFeedback ==
    /\ trackers \in SUBSET {Tracker(1, DatasetGroup), Tracker(2, OtherGroup)}
    /\ svc_next = 3
    /\ event_tracker_arn = Unbound
    /\ tracking_id = Unbound
    /\ create_result = "NotRun"
    /\ cell_raised = FALSE
    /\ cell_runs = 0
    /\ session_dict = [u \in {} |-> 0]
    /\ uuid_clock = 0
    /\ events = << >>
    /\ calls = << >>
    /\ PreprocIdle
    /\ SamplingIdle

FeedbackNext ==
    \/ TrackerCellCreated
    \/ TrackerCellExisting
    \/ TrackerCellOtherError
    \/ SendInteraction
    \/ SendInteractionNameError

FeedbackSpec == InitFeedback /\ [][FeedbackNext]_vars

(***************************************************************************)
(* The item cell: it builds item_titles and keeps a reservoir of           *)
(* n_interactions item IDs while it reads data/raw/items once.             *)
(* An item record is modelled by what get_item_id() and get_item_title()   *)
(* return for it.  random.randint(a, b) returns an integer of a..b, both   *)
(* ends included.                                                          *)
(***************************************************************************)
CatalogueIds == 1..4
Titles == {"t1", "t2"}
ItemRecords == [itemId : CatalogueIds, title : Titles]
GetItemId(item) == item.itemId
GetItemTitle(item) == item.title

RandInt(a, b) == a..b

DictSet(d, k, v) == [x \in DOMAIN d \cup {k} |-> IF x = k THEN v ELSE d[x]]
DictGet(d, k) == IF k \in DOMAIN d THEN d[k] ELSE "KeyError"

\* A Python list is a sequence; Python index idx is position idx + 1, and a
\* negative index counts from the end.  An index outside -len..len-1 raises
\* IndexError.
PyIndex(l, idx) == IF idx < 0 THEN idx + Len(l) ELSE idx
IndexInRange(l, idx) == PyIndex(l, idx) \in 0..(Len(l) - 1)
ListSet(l, idx, v) == [l EXCEPT ![PyIndex(l, idx) + 1] = v]

CatalogueNext == IF Len(items_read) < MaxItems THEN ItemRecords ELSE {}

\* if n_items <= n_interactions
FillsReservoir(n, k) == n <= k
\* i = random.randint(n_interactions, n_items)
ResampleDraws(k, n) == RandInt(k, n)
\* if i <= n_interactions
Replaces(i, k) == i <= k
ReplaceIndexAsDrawn(i) == i
\* interaction_items[i - 1] = ...
ReplaceIndex(i) == i - 1
Resampled(res, id, i, k) ==
    IF Replaces(i, k) THEN ListSet(res, ReplaceIndex(i), id) ELSE res

ItemFill ==
    /\ item_cell = "Reading"
    /\ \E item \in CatalogueNext :
          /\ FillsReservoir(n_items + 1, n_interactions)
          /\ items_read' = Append(items_read, item)
          /\ n_items' = n_items + 1
          /\ item_titles' = DictSet(item_titles, GetItemId(item), GetItemTitle(item))
          /\ interaction_items' = Append(interaction_items, GetItemId(item))
          /\ written_index' = NoIndex
    /\ UNCHANGED <<n_interactions, item_cell, shown, userCellVars, preprocVars,
                   feedbackVars>>

ItemResample ==
    /\ item_cell = "Reading"
    /\ \E item \in CatalogueNext :
          /\ ~FillsReservoir(n_items + 1, n_interactions)
          /\ items_read' = Append(items_read, item)
          /\ n_items' = n_items + 1
          /\ item_titles' = DictSet(item_titles, GetItemId(item), GetItemTitle(item))
          /\ \E i \in ResampleDraws(n_interactions, n_items + 1) :
                IF Replaces(i, n_interactions)
                     /\ ~IndexInRange(interaction_items, ReplaceIndex(i))
                THEN \* IndexError
                     /\ written_index' = ReplaceIndex(i)
                     /\ item_cell' = "Raised"
                     /\ UNCHANGED interaction_items
                ELSE /\ interaction_items' =
                           Resampled(interaction_items, GetItemId(item), i,
                                     n_interactions)
                     /\ written_index' =
                           IF Replaces(i, n_interactions) THEN ReplaceIndex(i)
                           ELSE NoIndex
                     /\ UNCHANGED item_cell
    /\ UNCHANGED <<n_interactions, shown, userCellVars, preprocVars, feedbackVars>>

\* After the loop: the table of the reservoir's IDs and
\* [item_titles[iid] for iid in interaction_items].
TitleRows(res, titles) ==
    [j \in 1..Len(res) |-> [id |-> res[j], title |-> DictGet(titles, res[j])]]

ItemCellShow ==
    /\ item_cell = "Reading"
    /\ shown' = TitleRows(interaction_items, item_titles)
    /\ item_cell' = IF \E j \in 1..Len(interaction_items) :
                          interaction_items[j] \notin DOMAIN item_titles
                    THEN "Raised" ELSE "Shown"
    /\ UNCHANGED <<n_interactions, items_read, n_items, item_titles,
                   interaction_items, written_index, userCellVars, preprocVars,
                   feedbackVars>>

InitItemCell ==
    /\ n_interactions \in 1..NotebookInteractions
    /\ items_read = << >>
    /\ n_items = 0
    /\ item_titles = EmptyDict
    /\ interaction_items = << >>
    /\ written_index = NoIndex
    /\ item_cell = "Reading"
    /\ shown = << >>
    /\ UserCellIdle
    /\ PreprocIdle
    /\ FeedbackIdle

ItemCellNext ==
    \/ ItemFill
    \/ ItemResample
    \/ ItemCellShow

ItemCellSpec == InitItemCell /\ [][ItemCellNext]_vars

(***************************************************************************)
(* The user cell: a reservoir of one record over data/raw/users, then the  *)
(* "Testing with user ID ..." message.  A user record is modelled by what  *)
(* get_user_id() returns for it and by its optional name fields.           *)
(***************************************************************************)
FirstNames == {"Ann", "Bob"}
LastNames == {"Lee"}
UserRecords ==
    [id : Users, firstName : FirstNames, lastName : LastNames] \cup [id : Users]
GetUserId(u) == u.id
\* dict.get(key, default)
Get(rec, key, default) == IF key \in DOMAIN rec THEN rec[key] ELSE default

UsersNext == IF Len(users_seen) < MaxUsers THEN UserRecords ELSE {}

\* if random.randint(1, n_users) <= 1
UserDraws(n) == RandInt(1, n)
TakesUser(r) == r <= 1

UserIteration ==
    /\ user_cell = "Reading"
    /\ \E u \in UsersNext :
          /\ users_seen' = Append(users_seen, u)
          /\ user' = u
          /\ n_users' = n_users + 1
          /\ \E r \in UserDraws(n_users + 1) :
                sample_user' = IF TakesUser(r) THEN u ELSE sample_user
    /\ UNCHANGED <<user_cell, printed, itemCellVars, preprocVars, feedbackVars>>

\* The message is built from user_id, taken from sample_user, and from the
\* names of the loop variable user.
Message(sampled, named) ==
    [user_id |-> GetUserId(sampled),
     firstName |-> Get(named, "firstName", "???"),
     lastName |-> Get(named, "lastName", "???"),
     named |-> named]

UserCellPrint ==
    /\ user_cell = "Reading"
    /\ user # Undefined
    /\ printed' = Message(sample_user, user)
    /\ user_cell' = "Printed"
    /\ UNCHANGED <<users_seen, n_users, sample_user, user, itemCellVars,
                   preprocVars, feedbackVars>>

\* Empty stream: sample_user is None and user is not bound, so the two
\* statements after the loop cannot both complete.
UserCellRaises ==
    /\ user_cell = "Reading"
    /\ user = Undefined
    /\ user_cell' = "Raised"
    /\ UNCHANGED <<users_seen, n_users, sample_user, user, printed, itemCellVars,
                   preprocVars, feedbackVars>>

InitUserCell ==
    /\ UserCellIdle
    /\ ItemCellIdle
    /\ PreprocIdle
    /\ FeedbackIdle

UserCellNext ==
    \/ UserIteration
    \/ UserCellPrint
    \/ UserCellRaises

UserCellSpec == InitUserCell /\ [][UserCellNext]_vars

(***************************************************************************)
(* Operators used to state the properties.  They are computed from the     *)
(* histories (lines pulled, draws made) independently of the actions.      *)
(***************************************************************************)
Objs(lines) == [i \in 1..Len(lines) |-> lines[i].obj]
ValidPrefix(lines) == SelectSeq(lines, LAMBDA l : l.valid)
AsinsOf(lines) == [i \in 1..Len(lines) |-> lines[i].obj.asin]
Front(s) == SubSeq(s, 1, Len(s) - 1)

\* The records of objs that are members of ids or whose own draw ds[i] is
\* below p, in the order of objs.
RECURSIVE Kept(_, _, _, _)
Kept(objs, ds, ids, p) ==
    IF objs = << >>
    THEN << >>
    ELSE LET n == Len(objs)
             rest == Kept(Front(objs), Front(ds), ids, p)
         IN  IF objs[n].asin \in ids \/ (ds[n] # NoDraw /\ ds[n] < p)
             THEN Append(rest, objs[n])
             ELSE rest

RECURSIVE IsSubseq(_, _)
IsSubseq(a, b) ==
    IF a = << >> THEN TRUE
    ELSE IF b = << >> THEN FALSE
    ELSE IF Head(a) = Head(b) THEN IsSubseq(Tail(a), Tail(b))
    ELSE IsSubseq(a, Tail(b))

FilterCalled == flt_state \in {"Reading", "Done", "Failed"}

(***************************************************************************)
(* C1.  With cold-start probability 0, when the filter is Done its output  *)
(* is exactly the input records whose identifier is in the Reviewed-ID     *)
(* Set, in input order, once per input record; and at no point of the pass *)
(* does the output hold a record whose identifier is not in the set.       *)
(***************************************************************************)
C1_ReviewedOnlyAtZero ==
    (FilterCalled /\ max_cold_start = 0) =>
        /\ \A i \in 1..Len(fout) :
              fout[i].valid /\ fout[i].obj.asin \in reviewed_item_ids
        /\ flt_state = "Done" =>
              Objs(fout) = SelectSeq(Objs(items_seen),
                                     LAMBDA o : o.asin \in reviewed_item_ids)

\* Identifiers [A, B, B] with set {B} give [B, B]: the shape of the spec's
\* example [A, B, C, B, D] with {B, D}.
C1_Witness ==
    /\ flt_state = "Done"
    /\ max_cold_start = 0
    /\ reviewed_item_ids = {"B"}
    /\ AsinsOf(items_seen) = <<"A", "B", "B">>
    /\ AsinsOf(fout) = <<"B", "B">>

(***************************************************************************)
(* C2.  For every p and every outcome of the draws, at every point of the  *)
(* pass the output is exactly the records read that are members of the     *)
(* Reviewed-ID Set or were admitted by their own draw: a record is written *)
(* iff one of the two holds, whatever the other records and draws were.    *)
(***************************************************************************)
C2_KeptIffReviewedOrAdmitted ==
    FilterCalled =>
        /\ Len(draws) = Len(ValidPrefix(items_seen))
        /\ Objs(fout) = Kept(Objs(ValidPrefix(items_seen)), draws,
                              reviewed_item_ids, max_cold_start)

\* One pass at p = 0.01 that keeps a reviewed record, admits one unreviewed
\* record and rejects another.
C2_Witness ==
    /\ flt_state = "Done"
    /\ max_cold_start = NotebookColdStart
    /\ reviewed_item_ids = {"B"}
    /\ AsinsOf(items_seen) = <<"A", "B", "A">>
    /\ draws = <<0, NoDraw, 99>>
    /\ AsinsOf(fout) = <<"A", "B">>

(***************************************************************************)
(* C3.  At every point of the pass the records written so far are a        *)
(* subsequence of the records read so far: nothing that was not read, no   *)
(* record more often than it was read, and in the order of the input.      *)
(***************************************************************************)
C3_OutputIsSubsequence ==
    FilterCalled =>
        /\ \A i \in 1..Len(fout) : fout[i].valid
        /\ IsSubseq(Objs(fout), Objs(ValidPrefix(items_seen)))

\* Mid-pass: three records read, two of them written, one dropped.
C3_Witness ==
    /\ flt_state = "Reading"
    /\ AsinsOf(items_seen) = <<"B", "A", "A">>
    /\ AsinsOf(fout) = <<"B", "A">>

(***************************************************************************)
(* C4.  When the line at position k fails to decode, the filter is Failed  *)
(* with a MalformedRecord error that names position k; the output holds    *)
(* exactly the kept records among positions 1..k-1; and, Failed being      *)
(* every later state too, nothing after position k is read or written.     *)
(***************************************************************************)
C4_MalformedAbortsAtLine ==
    flt_state = "Failed" =>
        LET k == flt_error.line
        IN  /\ flt_error.kind = "MalformedRecord"
            /\ k >= 1
            /\ k = Len(items_seen)
            /\ ~items_seen[k].valid
            /\ \A i \in 1..(k - 1) : items_seen[i].valid
            /\ Len(draws) = k - 1
            /\ Objs(fout) = Kept(Objs(SubSeq(items_seen, 1, k - 1)), draws,
                                  reviewed_item_ids, max_cold_start)

\* Malformed line 3: the decisions of lines 1-2 (one kept, one dropped) stay.
C4_Witness ==
    /\ flt_state = "Failed"
    /\ flt_error = [kind |-> "MalformedRecord", line |-> 3]
    /\ ~items_seen[3].valid
    /\ Len(draws) = 2
    /\ Len(fout) = 1

(***************************************************************************)
(* C5.  Extractor and Filter are single-pass machines over Reading, Done,  *)
(* Failed.  As stated: Reading -> Reading on a successful decode,          *)
(* Reading -> Done on exhaustion, Reading -> Failed on a decode error      *)
(* only; Done and Failed are never left and set, count and output are      *)
(* frozen there; every pass ends in Done or Failed.                        *)
(* As amended (C5_SinglePassMachines): in the Extractor a decoded record   *)
(* without the "asin" field also leads Reading -> Failed (a KeyError), so  *)
(* Reading -> Reading needs a decoded record that carries the field.       *)
(***************************************************************************)
PulledReview ==
    /\ Len(reviews_seen') = Len(reviews_seen) + 1
    /\ Front(reviews_seen') = reviews_seen
LastReview == reviews_seen'[Len(reviews_seen')]
PulledItem ==
    /\ Len(items_seen') = Len(items_seen) + 1
    /\ Front(items_seen') = items_seen
LastItem == items_seen'[Len(items_seen')]

ExtractorFrozen ==
    ext_state \in {"Done", "Failed"} =>
        UNCHANGED <<ext_state, reviewed_item_ids, n_reviews>>

ExtractorMovesAsStated ==
    ext_state = "Reading" =>
        \/ UNCHANGED extractorVars
        \/ PulledReview /\ LastReview.valid /\ ext_state' = "Reading"
        \/ reviews_seen' = reviews_seen /\ ext_state' = "Done"
        \/ PulledReview /\ ~LastReview.valid /\ ext_state' = "Failed"

ExtractorMovesAsAmended ==
    ext_state = "Reading" =>
        \/ UNCHANGED extractorVars
        \/ /\ PulledReview
           /\ LastReview.valid
           /\ "asin" \in DOMAIN LastReview.obj
           /\ ext_state' = "Reading"
        \/ reviews_seen' = reviews_seen /\ ext_state' = "Done"
        \/ /\ PulledReview
           /\ ~LastReview.valid \/ "asin" \notin DOMAIN LastReview.obj
           /\ ext_state' = "Failed"

FilterMoves ==
    /\ flt_state \in {"Done", "Failed"} => UNCHANGED <<flt_state, fout>>
    /\ flt_state = "NotCalled" => flt_state' \in {"NotCalled", "Reading"}
    /\ flt_state = "Reading" =>
          \/ UNCHANGED <<flt_state, items_seen, fout>>
          \/ PulledItem /\ LastItem.valid /\ flt_state' = "Reading"
          \/ UNCHANGED <<items_seen, fout>> /\ flt_state' = "Done"
          \/ PulledItem /\ ~LastItem.valid /\ fout' = fout /\ flt_state' = "Failed"

PassesEnd ==
    /\ <>(ext_state \in {"Done", "Failed"})
    /\ (flt_state = "Reading") ~> (flt_state \in {"Done", "Failed"})

\* C5 as stated: every step of either machine is one of the listed transitions
\* (Failed only on a decode error), Done and Failed are frozen, every pass ends.
C5_AsStated ==
    /\ [][ExtractorFrozen /\ ExtractorMovesAsStated /\ FilterMoves]_vars
    /\ PassesEnd

\* C5 as amended: the same, with the Extractor's Reading -> Failed also taken
\* on a decoded record that lacks "asin".
C5_SinglePassMachines ==
    /\ [][ExtractorFrozen /\ ExtractorMovesAsAmended /\ FilterMoves]_vars
    /\ PassesEnd

\* Both passes have ended: the Extractor on a record without "asin", the
\* Filter cleanly with something written.
C5_Witness ==
    /\ ext_state = "Failed"
    /\ ext_error = "KeyError"
    /\ n_reviews = 2
    /\ flt_state = "Done"
    /\ Len(fout) = 2

(***************************************************************************)
(* C6.  While the extraction loop runs and when it is Done, the set is     *)
(* exactly the identifiers of the records read and the count is their      *)
(* number: set size <= count, an empty stream gives ({}, 0), and, both     *)
(* being functions of the lines read, two runs on one input agree.         *)
(***************************************************************************)
C6_SetAndCountOfStream ==
    ext_state \in {"Reading", "Done"} =>
        /\ reviewed_item_ids =
              {reviews_seen[i].obj.asin : i \in 1..Len(reviews_seen)}
        /\ n_reviews = Len(reviews_seen)
        /\ Cardinality(reviewed_item_ids) <= n_reviews
        /\ reviews_seen = << >> => (reviewed_item_ids = {} /\ n_reviews = 0)

\* Two reviews of one product: one identifier, count 2.
C6_Witness ==
    /\ ext_state = "Done"
    /\ AsinsOf(reviews_seen) = <<"A", "A">>
    /\ reviewed_item_ids = {"A"}
    /\ n_reviews = 2

(***************************************************************************)
(* C7.  Re-running remove_unused_items() on the filtered dataset, with the *)
(* same Reviewed-ID Set and the notebook's max_cold_start = 0.01, gives    *)
(* the filtered dataset again.                                             *)
(***************************************************************************)
C7_RerunGivesSame ==
    (run = 2 /\ flt_state = "Done" /\ max_cold_start = NotebookColdStart) =>
        fout = filtered

(***************************************************************************)
(* C8.  With p = 1.0 and an empty Reviewed-ID Set the output of a finished *)
(* pass is the whole input, every record once and in order; an empty input *)
(* gives an empty output whatever the set and p are.                       *)
(***************************************************************************)
C8_AllKeptAtOne ==
    flt_state = "Done" =>
        /\ (max_cold_start = 100 /\ reviewed_item_ids = {}) =>
              Objs(fout) = Objs(items_seen)
        /\ items_seen = << >> => fout = << >>

\* Three records, none reviewed, all written at p = 1.0.
C8_Witness ==
    /\ flt_state = "Done"
    /\ max_cold_start = 100
    /\ reviewed_item_ids = {}
    /\ AsinsOf(items_seen) = <<"A", "B", "A">>
    /\ Len(fout) = 3

(***************************************************************************)
(* C9.  send_interaction session IDs.  As stated: a session ID is          *)
(* generated for a user exactly once, on the first call for that user;     *)
(* later calls for the user send the same sessionId; a call never changes  *)
(* another user's session ID; and each call sends exactly one event that   *)
(* carries the given item_id.                                              *)
(* As amended (C9_SessionPerUser): the last part holds of the calls made   *)
(* once tracking_id is bound; a call made before that generates the        *)
(* user's session ID, raises NameError and sends nothing.                  *)
(***************************************************************************)
CalledUsers == {calls[i].user : i \in 1..Len(calls)}
Returned == SelectSeq(calls, LAMBDA c : c.result = "Returned")

\* events is, in order, one request per call of cs, each with one event that
\* carries the call's item_id and the session ID stored for the call's user.
OneEventPerCall(cs) ==
    /\ Len(events) = Len(cs)
    /\ \A i \in 1..Len(cs) :
          /\ events[i].userId = cs[i].user
          /\ events[i].sessionId = ToString(session_dict[cs[i].user])
          /\ Len(events[i].eventList) = 1
          /\ events[i].eventList[1].properties.obj = [itemId |-> ToString(cs[i].item)]

GeneratedOncePerUser ==
    /\ DOMAIN session_dict = CalledUsers
    /\ uuid_clock = Cardinality(CalledUsers)

SessionsStay ==
    /\ \A u \in DOMAIN session_dict :
          u \in DOMAIN session_dict' /\ session_dict'[u] = session_dict[u]
    /\ Len(events') >= Len(events)
    /\ SubSeq(events', 1, Len(events)) = events
    /\ calls' # calls =>
          /\ Front(calls') = calls
          /\ (uuid_clock' = uuid_clock + 1) <=>
                 (calls'[Len(calls')].user \notin DOMAIN session_dict)
          /\ uuid_clock' \in {uuid_clock, uuid_clock + 1}

\* C9 as stated: one session ID per user, generated on the user's first call
\* and never changed, and one event per call, carrying the call's item_id.
C9_AsStated ==
    /\ [](GeneratedOncePerUser /\ OneEventPerCall(calls))
    /\ [][SessionsStay]_vars

\* C9 as amended: one session ID per user, generated on the user's first call
\* and never changed, and one event, carrying the call's item_id, per call
\* that found tracking_id bound (the calls that returned).
C9_SessionPerUser ==
    /\ [](GeneratedOncePerUser /\ OneEventPerCall(Returned))
    /\ [][SessionsStay]_vars

\* u1, u2, u1: the third call reuses the session ID of the first.
C9_Witness ==
    /\ Len(calls) = 3
    /\ Len(events) = 3
    /\ <<calls[1].user, calls[2].user, calls[3].user>> = <<"u1", "u2", "u1">>
    /\ events[3].sessionId = events[1].sessionId
    /\ events[2].sessionId # events[1].sessionId
    /\ uuid_clock = 2

(***************************************************************************)
(* C10.  The tracker cell, against a service with one Event Tracker per    *)
(* Dataset Group.  After a run in which create_event_tracker succeeded or  *)
(* failed with ResourceAlreadyExistsException, the cell did not raise and  *)
(* event_tracker_arn and tracking_id are those of the group's one tracker  *)
(* (new in the first case, unchanged service in the second); a run with    *)
(* any other ClientError raises and assigns nothing; tracking_id, once     *)
(* assigned, is the same after every later run.                            *)
(***************************************************************************)
CellRan == cell_runs' = cell_runs + 1

TrackerCellState ==
    /\ Cardinality(GroupTrackers(DatasetGroup)) <= 1
    /\ create_result \in {"Success", "ResourceAlreadyExistsException"} =>
          /\ ~cell_raised
          /\ \E t \in trackers :
                /\ GroupTrackers(DatasetGroup) = {t}
                /\ event_tracker_arn = t.arn
                /\ tracking_id = t.trackingId

TrackerCellRun ==
    /\ tracking_id # Unbound => tracking_id' = tracking_id
    /\ (CellRan /\ create_result' = "Success") =>
          \E t \in trackers' :
             /\ t \notin trackers
             /\ trackers' = trackers \cup {t}
             /\ tracking_id' = t.trackingId
             /\ event_tracker_arn' = t.arn
    /\ (CellRan /\ create_result' = "ResourceAlreadyExistsException") =>
          trackers' = trackers
    /\ (CellRan /\ create_result' = "OtherClientError") =>
          /\ cell_raised'
          /\ UNCHANGED <<trackers, tracking_id, event_tracker_arn>>

\* C10: after every run answered Success or ResourceAlreadyExistsException the
\* globals are those of the group's single tracker; other errors re-raise and
\* assign nothing; tracking_id never changes once assigned.
C10_TrackerCellIdempotent ==
    /\ []TrackerCellState
    /\ [][TrackerCellRun]_vars

\* First run creates the tracker, second run finds it, next to a tracker of
\* another Dataset Group.
C10_Witness ==
    /\ cell_runs = 2
    /\ create_result = "ResourceAlreadyExistsException"
    /\ trackers = {Tracker(2, OtherGroup), Tracker(3, DatasetGroup)}
    /\ event_tracker_arn = Tracker(3, DatasetGroup).arn
    /\ tracking_id = Tracker(3, DatasetGroup).trackingId

(***************************************************************************)
(* C11.  The reservoirs the item loop can hold after reading a stream,     *)
(* over all outcomes of the draws, computed with the loop's own steps.     *)
(***************************************************************************)
IdsOf(items) == [j \in 1..Len(items) |-> GetItemId(items[j])]
Range(s) == {s[j] : j \in DOMAIN s}
Distinct(s) == Cardinality(Range(s)) = Len(s)
KSubsets(S, k) == {T \in SUBSET S : Cardinality(T) = k}

RECURSIVE Reservoirs(_, _)
Reservoirs(ids, k) ==
    IF ids = << >> THEN {<< >>}
    ELSE LET n == Len(ids)
             before == Reservoirs(Front(ids), k)
         IN  IF FillsReservoir(n, k)
             THEN {Append(r, ids[n]) : r \in before}
             ELSE {Resampled(r, ids[n], i, k) :
                      r \in before, i \in ResampleDraws(k, n)}

SlotsOverwritable(k, n) ==
    {ReplaceIndex(i) + 1 :
        i \in {d \in UNION {ResampleDraws(k, m) : m \in (k + 1)..n} : Replaces(d, k)}}

\* C11: over a stream of n > k items with distinct IDs, every k-element
\* subset of the stream's IDs is the content of interaction_items after some
\* outcome of the draws, and every slot 1..k can be overwritten.
C11_AsStated ==
    (/\ item_cell = "Shown"
     /\ n_items > n_interactions
     /\ Distinct(IdsOf(items_read))) =>
       /\ \A T \in KSubsets(Range(IdsOf(items_read)), n_interactions) :
             \E r \in Reservoirs(IdsOf(items_read), n_interactions) : Range(r) = T
       /\ SlotsOverwritable(n_interactions, n_items) = 1..n_interactions

(***************************************************************************)
(* C12.  The message of the user cell.                                     *)
(***************************************************************************)
\* C12: for every non-empty user stream and every outcome of the draws, the
\* record whose first and last name are printed is sample_user, the record
\* the printed user_id is taken from.
C12_AsStated ==
    user_cell = "Printed" =>
       /\ printed.user_id = GetUserId(sample_user)
       /\ printed.named = sample_user
       /\ printed.firstName = Get(sample_user, "firstName", "???")
       /\ printed.lastName = Get(sample_user, "lastName", "???")

(***************************************************************************)
(* C13.  What every iteration of the item loop keeps true.                 *)
(***************************************************************************)
Min(a, b) == IF a <= b THEN a ELSE b

ReservoirSize ==
    Len(interaction_items) = Min(n_items, n_interactions)

WrittenIndexInBounds ==
    /\ item_cell # "Raised"
    /\ written_index # NoIndex => written_index \in 0..(n_interactions - 1)

EntriesAreRead ==
    \A j \in 1..Len(interaction_items) :
       /\ interaction_items[j] \in Range(IdsOf(items_read))
       /\ interaction_items[j] \in DOMAIN item_titles

TitlesBounded ==
    /\ n_items = Len(items_read)
    /\ Cardinality(DOMAIN item_titles) <= n_items

LookupsHit ==
    item_cell = "Shown" =>
       /\ Len(shown) = Len(interaction_items)
       /\ \A j \in 1..Len(shown) :
             /\ shown[j].id = interaction_items[j]
             /\ shown[j].title # "KeyError"
             /\ shown[j].title = item_titles[shown[j].id]

\* C13: after every iteration len(interaction_items) = min(n_items, k), a
\* replacement writes an index of 0..k-1, every entry of interaction_items is
\* the ID of an item already read and a key of item_titles, so the title
\* lookups after the loop do not miss, and len(item_titles) <= n_items.
C13_ReservoirInvariant ==
    /\ ReservoirSize
    /\ WrittenIndexInBounds
    /\ EntriesAreRead
    /\ TitlesBounded
    /\ LookupsHit

\* The notebook's k = 3 over four items, two of them with the same ID; the
\* last iteration replaced the last slot, and the table was shown.
C13_Witness ==
    /\ item_cell = "Shown"
    /\ n_interactions = NotebookInteractions
    /\ n_items = n_interactions + 1
    /\ written_index = n_interactions - 1
    /\ interaction_items[n_interactions] = GetItemId(items_read[n_items])
    /\ Cardinality(DOMAIN item_titles) < n_items
    /\ Len(shown) = n_interactions

====
